---- MODULE Spec2Model ----
(***************************************************************************)
(* Model of toy-sysctl-conf (src/src/lib.rs): the line tokenizer, the      *)
(* Config and Schema parsers and the validator.  Strings are sequences of  *)
(* one-character strings, so trimming, splitting and integer parsing are   *)
(* computed character by character as the library does.                    *)
(***************************************************************************)
EXTENDS Integers, Sequences, FiniteSets, TLC

VARIABLES configText, schemaText, config, schema, result, got

vars == <<configText, schemaText, config, schema, result, got>>

(***************************************************************************)
(* Bounds of the explored inputs.                                          *)
(***************************************************************************)
MaxLen == 4
MaxLines == 3
MaxValLines == 2
MaxIntLen == 3
MaxZeros == 1

(***************************************************************************)
(* Strings.                                                                *)
(***************************************************************************)
\* char::is_whitespace, restricted to the ASCII members of White_Space
WhiteSpace == {" ", "\t", "\n", "\r"}

None == [some |-> FALSE]
Some(v) == [some |-> TRUE, val |-> v]

Ok(v) == [ok |-> TRUE, val |-> v]
Err(e) == [ok |-> FALSE, err |-> e]

\* the state of a variable no operation has written yet
NotCalled == [called |-> FALSE]

RECURSIVE trim_start(_)
trim_start(s) ==
    IF s # <<>> /\ Head(s) \in WhiteSpace THEN trim_start(Tail(s)) ELSE s

RECURSIVE trim_end(_)
trim_end(s) ==
    IF s # <<>> /\ s[Len(s)] \in WhiteSpace
    THEN trim_end(SubSeq(s, 1, Len(s) - 1))
    ELSE s

\* str::trim
trim(s) == trim_end(trim_start(s))

\* str::is_empty
is_empty(s) == Len(s) = 0

\* str::starts_with(char)
starts_with(s, c) == Len(s) > 0 /\ s[1] = c

\* str::strip_prefix(char)
strip_prefix(s, c) ==
    IF starts_with(s, c) THEN Some(SubSeq(s, 2, Len(s))) ELSE None

\* str::find(char): the position of the first c in s, 0 when there is none
find(s, c) ==
    IF \E i \in 1..Len(s) : s[i] = c
    THEN CHOOSE i \in 1..Len(s) : s[i] = c /\ \A j \in 1..(i - 1) : s[j] # c
    ELSE 0

\* split_once as str::rsplit_once would do it: at the last c
rsplit_once(s, c) ==
    IF \E i \in 1..Len(s) : s[i] = c
    THEN LET i == CHOOSE k \in 1..Len(s) :
                      s[k] = c /\ \A j \in (k + 1)..Len(s) : s[j] # c
         IN  Some(<<SubSeq(s, 1, i - 1), SubSeq(s, i + 1, Len(s))>>)
    ELSE None

\* str::split_once(char)
split_once(s, c) ==
    LET i == find(s, c)
    IN  IF i = 0
        THEN None
        ELSE Some(<<SubSeq(s, 1, i - 1), SubSeq(s, i + 1, Len(s))>>)

\* str::lines: split after every "\n", drop that "\n" and a "\r" before it;
\* a text that ends in "\n" has no empty last line
RECURSIVE lines(_)
lines(content) ==
    IF content = <<>>
    THEN <<>>
    ELSE LET i == find(content, "\n")
         IN  IF i = 0
             THEN <<content>>
             ELSE LET l == SubSeq(content, 1, i - 1)
                      line == IF l # <<>> /\ l[Len(l)] = "\r"
                              THEN SubSeq(l, 1, Len(l) - 1)
                              ELSE l
                  IN  <<line>> \o lines(SubSeq(content, i + 1, Len(content)))

(***************************************************************************)
(* Tokens.                                                                 *)
(***************************************************************************)
BlankLine == [type |-> "BlankLine"]
Comment(text) == [type |-> "Comment", text |-> text]
KeyValue(key, value, ignore_error) ==
    [type |-> "KeyValue", key |-> key, value |-> value,
     ignore_error |-> ignore_error]

InvalidLine(line_number, content) ==
    [kind |-> "InvalidLine", line_number |-> line_number, content |-> content]
InvalidType(line_number, type_name) ==
    [kind |-> "InvalidType", line_number |-> line_number,
     type_name |-> type_name]

\* parse_line with the comment markers looked for in the line as written
\* instead of the trimmed line
parse_line_comment_untrimmed(i, line) ==
    LET trimmed == trim(line)
    IN  IF is_empty(trimmed)
        THEN Ok(BlankLine)
        ELSE IF starts_with(line, "#") \/ starts_with(line, ";")
        THEN Ok(Comment(trimmed))
        ELSE IF strip_prefix(trimmed, "-").some
        THEN LET rest == strip_prefix(trimmed, "-").val
                 kv == split_once(rest, "=")
             IN  IF ~kv.some
                 THEN Err(InvalidLine(i + 1, line))
                 ELSE Ok(KeyValue(trim(kv.val[1]), trim(kv.val[2]), TRUE))
        ELSE LET kv == split_once(trimmed, "=")
             IN  IF ~kv.some
                 THEN Err(InvalidLine(i + 1, line))
                 ELSE Ok(KeyValue(trim(kv.val[1]), trim(kv.val[2]), FALSE))

\* parse_line with "#" as the only comment marker
parse_line_hash_only(i, line) ==
    LET trimmed == trim(line)
    IN  IF is_empty(trimmed)
        THEN Ok(BlankLine)
        ELSE IF starts_with(trimmed, "#")
        THEN Ok(Comment(trimmed))
        ELSE IF strip_prefix(trimmed, "-").some
        THEN LET rest == strip_prefix(trimmed, "-").val
                 kv == split_once(rest, "=")
             IN  IF ~kv.some
                 THEN Err(InvalidLine(i + 1, line))
                 ELSE Ok(KeyValue(trim(kv.val[1]), trim(kv.val[2]), TRUE))
        ELSE LET kv == split_once(trimmed, "=")
             IN  IF ~kv.some
                 THEN Err(InvalidLine(i + 1, line))
                 ELSE Ok(KeyValue(trim(kv.val[1]), trim(kv.val[2]), FALSE))

\* the closure of Tokens::parse applied to the line at 0-based index i
parse_line(i, line) ==
    LET trimmed == trim(line)
    IN  IF is_empty(trimmed)
        THEN Ok(BlankLine)
        ELSE IF starts_with(trimmed, "#") \/ starts_with(trimmed, ";")
        THEN Ok(Comment(trimmed))
        ELSE IF strip_prefix(trimmed, "-").some
        THEN LET rest == strip_prefix(trimmed, "-").val
                 kv == split_once(rest, "=")
             IN  IF ~kv.some
                 THEN Err(InvalidLine(i + 1, line))
                 ELSE Ok(KeyValue(trim(kv.val[1]), trim(kv.val[2]), TRUE))
        ELSE LET kv == split_once(trimmed, "=")
             IN  IF ~kv.some
                 THEN Err(InvalidLine(i + 1, line))
                 ELSE Ok(KeyValue(trim(kv.val[1]), trim(kv.val[2]), FALSE))

\* Tokens::parse keeping the last Err instead of stopping at the first
Tokens_parse_last_error(content) ==
    LET ls == lines(content)
        nodes == [n \in 1..Len(ls) |-> parse_line(n - 1, ls[n])]
    IN  IF \E n \in 1..Len(ls) : ~nodes[n].ok
        THEN LET last == CHOOSE n \in 1..Len(ls) :
                             /\ ~nodes[n].ok
                             /\ \A m \in (n + 1)..Len(ls) : nodes[m].ok
             IN  Err(nodes[last].err)
        ELSE Ok([n \in 1..Len(ls) |-> nodes[n].val])

\* Tokens::parse: collect() into a Result stops at the first Err
Tokens_parse(content) ==
    LET ls == lines(content)
        nodes == [n \in 1..Len(ls) |-> parse_line(n - 1, ls[n])]
    IN  IF \E n \in 1..Len(ls) : ~nodes[n].ok
        THEN LET first == CHOOSE n \in 1..Len(ls) :
                              /\ ~nodes[n].ok
                              /\ \A m \in 1..(n - 1) : nodes[m].ok
             IN  Err(nodes[first].err)
        ELSE Ok([n \in 1..Len(ls) |-> nodes[n].val])

(***************************************************************************)
(* Config.                                                                 *)
(***************************************************************************)
\* insert that keeps the value of a key the map already holds
insert_if_absent(entries, key, value) ==
    [k \in (DOMAIN entries) \cup {key} |->
        IF k \in DOMAIN entries THEN entries[k] ELSE value]

\* HashMap::insert
insert(entries, key, value) ==
    [k \in (DOMAIN entries) \cup {key} |->
        IF k = key THEN value ELSE entries[k]]

\* HashMap::new
EmptyMap == [k \in {} |-> <<>>]

\* filter_map + collect of Config::parse: the KeyValue tokens, inserted in order
RECURSIVE collect_entries(_, _)
collect_entries(tokens, entries) ==
    IF tokens = <<>>
    THEN entries
    ELSE LET node == Head(tokens)
         IN  IF node.type = "KeyValue"
             THEN collect_entries(Tail(tokens),
                                  insert(entries, node.key, node.value))
             ELSE collect_entries(Tail(tokens), entries)

Config_parse(content) ==
    LET parsed == Tokens_parse(content)
    IN  IF ~parsed.ok
        THEN Err(parsed.err)
        ELSE Ok([entries |-> collect_entries(parsed.val, EmptyMap)])

\* Config::get
Config_get(cfg, key) ==
    IF key \in DOMAIN cfg.entries THEN Some(cfg.entries[key]) ELSE None

(***************************************************************************)
(* ValueType.                                                              *)
(***************************************************************************)
Str_string == <<"s", "t", "r", "i", "n", "g">>
Str_bool == <<"b", "o", "o", "l">>
Str_integer == <<"i", "n", "t", "e", "g", "e", "r">>
Str_true == <<"t", "r", "u", "e">>
Str_false == <<"f", "a", "l", "s", "e">>

Digits == {"0", "1", "2", "3", "4", "5", "6", "7", "8", "9"}

\* char::to_digit(10)
to_digit(c) ==
    CASE c = "0" -> 0 [] c = "1" -> 1 [] c = "2" -> 2 [] c = "3" -> 3
      [] c = "4" -> 4 [] c = "5" -> 5 [] c = "6" -> 6 [] c = "7" -> 7
      [] c = "8" -> 8 [] c = "9" -> 9

\* A 64-bit magnitude is held in three limbs of seven decimal digits,
\* most significant first, so that every intermediate value stays below
\* 2^31.
Limb == 10000000

\* i32::MAX = 2147483647, the bound of value.parse::<i32>()
I32_MAX == <<0, 214, 7483647>>

\* i64::MAX = 9223372036854775807 and the magnitude of i64::MIN
I64_MAX == <<92233, 7203685, 4775807>>
I64_MIN_MAGNITUDE == <<92233, 7203685, 4775808>>

LimbsLeq(a, b) ==
    \/ a[1] < b[1]
    \/ a[1] = b[1] /\ a[2] < b[2]
    \/ a[1] = b[1] /\ a[2] = b[2] /\ a[3] <= b[3]

\* i64::checked_mul(10) on a value of the given sign: None on overflow
checked_mul10(acc, is_positive) ==
    LET lo == acc[3] * 10
        mid == acc[2] * 10 + lo \div Limb
        hi == acc[1] * 10 + mid \div Limb
        r == <<hi, mid % Limb, lo % Limb>>
    IN  IF LimbsLeq(r, IF is_positive THEN I64_MAX ELSE I64_MIN_MAGNITUDE)
        THEN Some(r)
        ELSE None

\* i64::checked_add(d) for a positive value, i64::checked_sub(d) for a
\* negative one: None on overflow
checked_add_digit(acc, d, is_positive) ==
    LET lo == acc[3] + d
        mid == acc[2] + lo \div Limb
        hi == acc[1] + mid \div Limb
        r == <<hi, mid % Limb, lo % Limb>>
    IN  IF LimbsLeq(r, IF is_positive THEN I64_MAX ELSE I64_MIN_MAGNITUDE)
        THEN Some(r)
        ELSE None

\* the digit loop of i64::from_str
RECURSIVE parse_digits(_, _, _)
parse_digits(digits, acc, is_positive) ==
    IF digits = <<>>
    THEN TRUE
    ELSE IF Head(digits) \notin Digits
    THEN FALSE
    ELSE LET m == checked_mul10(acc, is_positive)
         IN  IF ~m.some
             THEN FALSE
             ELSE LET a == checked_add_digit(m.val, to_digit(Head(digits)),
                                             is_positive)
                  IN  IF ~a.some
                      THEN FALSE
                      ELSE parse_digits(Tail(digits), a.val, is_positive)

\* value.parse::<i64>().is_ok(): i64::from_str takes an optional sign,
\* "+" or "-", and then at least one decimal digit
parse_i64_is_ok(value) ==
    IF is_empty(value)
    THEN FALSE
    ELSE IF Len(value) = 1 /\ value[1] \in {"+", "-"}
    THEN FALSE
    ELSE IF value[1] = "+"
    THEN parse_digits(Tail(value), <<0, 0, 0>>, TRUE)
    ELSE IF value[1] = "-"
    THEN parse_digits(Tail(value), <<0, 0, 0>>, FALSE)
    ELSE parse_digits(value, <<0, 0, 0>>, TRUE)

\* ValueType::is_valid
is_valid(vt, value) ==
    CASE vt = "Str" -> TRUE
      [] vt = "Bool" -> value = Str_true \/ value = Str_false
      [] vt = "Integer" -> parse_i64_is_ok(value)

\* Display for ValueType
to_string(vt) ==
    CASE vt = "Str" -> Str_string
      [] vt = "Bool" -> Str_bool
      [] vt = "Integer" -> Str_integer

(***************************************************************************)
(* Schema.                                                                 *)
(***************************************************************************)
\* the loop of Schema::parse numbering the key-value tokens alone, as
\* enumerate() after a filter would
RECURSIVE schema_loop_filtered(_, _, _)
schema_loop_filtered(tokens, i, entries) ==
    LET kvs == SelectSeq(tokens, LAMBDA t : t.type = "KeyValue")
    IN  IF i >= Len(kvs)
        THEN Ok([entries |-> entries])
        ELSE LET token == kvs[i + 1]
             IN  IF token.value = Str_string
                 THEN schema_loop_filtered(kvs, i + 1,
                                           insert(entries, token.key, "Str"))
                 ELSE IF token.value = Str_bool
                 THEN schema_loop_filtered(kvs, i + 1,
                                           insert(entries, token.key, "Bool"))
                 ELSE IF token.value = Str_integer
                 THEN schema_loop_filtered(kvs, i + 1,
                                     insert(entries, token.key, "Integer"))
                 ELSE Err(InvalidType(i + 1, token.value))

\* the loop of Schema::parse passing over a soft line whose type name it
\* does not know
RECURSIVE schema_loop_soft(_, _, _)
schema_loop_soft(tokens, i, entries) ==
    IF i >= Len(tokens)
    THEN Ok([entries |-> entries])
    ELSE LET token == tokens[i + 1]
         IN  IF token.type = "KeyValue"
             THEN IF token.value = Str_string
                  THEN schema_loop_soft(tokens, i + 1,
                                        insert(entries, token.key, "Str"))
                  ELSE IF token.value = Str_bool
                  THEN schema_loop_soft(tokens, i + 1,
                                        insert(entries, token.key, "Bool"))
                  ELSE IF token.value = Str_integer
                  THEN schema_loop_soft(tokens, i + 1,
                                        insert(entries, token.key, "Integer"))
                  ELSE IF token.ignore_error
                  THEN schema_loop_soft(tokens, i + 1, entries)
                  ELSE Err(InvalidType(i + 1, token.value))
             ELSE schema_loop_soft(tokens, i + 1, entries)

\* the loop of Schema::parse from the token at 0-based index i onwards
RECURSIVE schema_loop(_, _, _)
schema_loop(tokens, i, entries) ==
    IF i >= Len(tokens)
    THEN Ok([entries |-> entries])
    ELSE LET token == tokens[i + 1]
         IN  IF token.type = "KeyValue"
             THEN IF token.value = Str_string
                  THEN schema_loop(tokens, i + 1,
                                   insert(entries, token.key, "Str"))
                  ELSE IF token.value = Str_bool
                  THEN schema_loop(tokens, i + 1,
                                   insert(entries, token.key, "Bool"))
                  ELSE IF token.value = Str_integer
                  THEN schema_loop(tokens, i + 1,
                                   insert(entries, token.key, "Integer"))
                  ELSE Err(InvalidType(i + 1, token.value))
             ELSE schema_loop(tokens, i + 1, entries)

\* Schema::parse checking the type name of each line as soon as the line
\* is tokenized
Schema_parse_streaming(content) ==
    LET ls == lines(content)
        nodes == [n \in 1..Len(ls) |-> parse_line(n - 1, ls[n])]
        failed == {n \in 1..Len(ls) : ~nodes[n].ok}
        before == IF failed = {}
                  THEN Len(ls)
                  ELSE (CHOOSE n \in failed : \A m \in failed : n <= m) - 1
        checked == schema_loop([n \in 1..before |-> nodes[n].val], 0, EmptyMap)
    IN  IF failed = {} \/ ~checked.ok
        THEN checked
        ELSE Err(nodes[before + 1].err)

Schema_parse(content) ==
    LET parsed == Tokens_parse(content)
    IN  IF ~parsed.ok
        THEN Err(parsed.err)
        ELSE schema_loop(parsed.val, 0, EmptyMap)

(***************************************************************************)
(* Validation.                                                             *)
(***************************************************************************)
TypeMismatch(key, expected, value) ==
    [kind |-> "TypeMismatch", key |-> key, expected |-> expected,
     got |-> value]
UnknownKey(key) == [kind |-> "UnknownKey", key |-> key]
MissingKey(key) == [kind |-> "MissingKey", key |-> key]

\* first loop of validate, over the schema's entries in the order skeys
RECURSIVE check_schema_keys(_, _, _, _)
check_schema_keys(skeys, cfg, sch, errors) ==
    IF skeys = <<>>
    THEN errors
    ELSE LET key == Head(skeys)
             vt == sch.entries[key]
             value == Config_get(cfg, key)
         IN  IF value.some
             THEN IF ~is_valid(vt, value.val)
                  THEN check_schema_keys(Tail(skeys), cfg, sch,
                           Append(errors,
                                  TypeMismatch(key, to_string(vt), value.val)))
                  ELSE check_schema_keys(Tail(skeys), cfg, sch, errors)
             ELSE check_schema_keys(Tail(skeys), cfg, sch,
                                    Append(errors, MissingKey(key)))

\* second loop of validate, over the config's keys in the order ckeys
RECURSIVE check_config_keys(_, _, _)
check_config_keys(ckeys, sch, errors) ==
    IF ckeys = <<>>
    THEN errors
    ELSE LET key == Head(ckeys)
         IN  IF key \notin DOMAIN sch.entries
             THEN check_config_keys(Tail(ckeys), sch,
                                    Append(errors, UnknownKey(key)))
             ELSE check_config_keys(Tail(ckeys), sch, errors)

\* validate returning the first error alone
validate_fail_fast(cfg, sch, skeys, ckeys) ==
    LET errors == check_config_keys(ckeys, sch,
                      check_schema_keys(skeys, cfg, sch, <<>>))
    IN  IF errors = <<>> THEN Ok(<<>>) ELSE Err(<<errors[1]>>)

\* validate; skeys and ckeys are the orders in which the two HashMaps
\* happen to be iterated
validate(cfg, sch, skeys, ckeys) ==
    LET errors == check_config_keys(ckeys, sch,
                      check_schema_keys(skeys, cfg, sch, <<>>))
    IN  IF errors = <<>> THEN Ok(<<>>) ELSE Err(errors)

\* the orders in which a HashMap with the key set S can be iterated
IterationOrders(S) ==
    {f \in [1..Cardinality(S) -> S] :
        \A i, j \in 1..Cardinality(S) : f[i] = f[j] => i = j}

(***************************************************************************)
(* Input texts.                                                            *)
(***************************************************************************)
SeqsUpTo(S, n) == UNION {[1..m -> S] : m \in 0..n}

RECURSIVE Join(_)
Join(ls) ==
    IF ls = <<>>
    THEN <<>>
    ELSE IF Len(ls) = 1
    THEN ls[1]
    ELSE ls[1] \o <<"\n">> \o Join(Tail(ls))

\* every text of at most MaxLen characters over the characters the
\* tokenizer distinguishes
Alphabet == {"a", "=", "-", "#", ";", " ", "\n"}
ShortTexts == SeqsUpTo(Alphabet, MaxLen)

\* lines of every kind: blank, comment, plain and soft key-value lines with
\* recognized and unrecognized type names, lines without "="
LineSamples ==
    { <<>>,
      <<"#", " ", "a", " ", "=", " ">> \o Str_bool,
      <<";", "x">>,
      <<"a", "=">> \o Str_bool,
      <<" ", "a", " ", "=", " ">> \o Str_integer \o <<" ">>,
      <<"-", "a", "=">> \o Str_string,
      <<"b", "=", "x">>,
      <<"-", "b", " ", "=", " ", "y", "=", "z">>,
      <<"a">>,
      <<" ", "-", "b", " ">> }
SampleTexts == {Join(ls) : ls \in SeqsUpTo(LineSamples, MaxLines)}

\* config and schema lines over the keys a, b, c
ConfigLines ==
    { <<"a", "=", "5">>,
      <<"a", "=", "x">>,
      <<"b", "=">> \o Str_true,
      <<"#", "c", "=", "x">> }
SchemaLines ==
    { <<"a", "=">> \o Str_integer,
      <<"b", "=">> \o Str_bool,
      <<"c", "=">> \o Str_string,
      <<";", "b", "=">> \o Str_bool }
ConfigTexts == {Join(ls) : ls \in SeqsUpTo(ConfigLines, MaxValLines)}
SchemaTexts == {Join(ls) : ls \in SeqsUpTo(SchemaLines, MaxValLines)}

\* integer candidates: every short text over signs, digits and two other
\* characters, and the neighbours of i64::MAX, 9223372036854775807, with
\* each sign and with leading zeros
IntAlphabet == {"-", "+", "0", "9", ".", "a"}
I64_MAX_Digits ==
    <<"9", "2", "2", "3", "3", "7", "2", "0", "3", "6",
      "8", "5", "4", "7", "7", "5", "8", "0", "7">>
Zeros(n) == [i \in 1..n |-> "0"]
BoundaryDigits ==
    {[I64_MAX_Digits EXCEPT ![p] = d] :
        p \in 1..Len(I64_MAX_Digits), d \in {"0", "8", "9"}}
    \cup {[I64_MAX_Digits EXCEPT ![p] = "a"] : p \in {1, Len(I64_MAX_Digits)}}
    \cup {I64_MAX_Digits \o <<"0">>,
          SubSeq(I64_MAX_Digits, 1, Len(I64_MAX_Digits) - 1)}
IntegerValues ==
    SeqsUpTo(IntAlphabet, MaxIntLen)
    \cup {sign \o Zeros(z) \o body :
            sign \in {<<>>, <<"-">>, <<"+">>}, z \in 0..MaxZeros,
            body \in BoundaryDigits}

\* keys looked up with Config::get besides the ones the config holds
KeySamples == {<<"a">>, <<"z">>}

(***************************************************************************)
(* State machine: a caller parses a config text and a schema text,        *)
(* validates the one against the other and looks keys up.                  *)
(***************************************************************************)
InitCalls ==
    /\ config = NotCalled
    /\ schema = NotCalled
    /\ result = NotCalled
    /\ got = NotCalled

\* the pairs of texts a caller starts from: one text given to both
\* parsers, a config text and a schema text over the same keys, and the
\* config "n=<value>" with the schema "n=integer"
Inputs ==
    {<<t, t>> : t \in ShortTexts \cup SampleTexts}
    \cup (ConfigTexts \X SchemaTexts)
    \cup {<<(<<"n", "=">> \o value), (<<"n", "=">> \o Str_integer)>> :
            value \in IntegerValues}

Init ==
    /\ \E input \in Inputs :
        /\ configText = input[1]
        /\ schemaText = input[2]
    /\ InitCalls

ConfigParse ==
    /\ config = NotCalled
    /\ config' = Config_parse(configText)
    /\ UNCHANGED <<configText, schemaText, schema, result, got>>

SchemaParse ==
    /\ schema = NotCalled
    /\ schema' = Schema_parse(schemaText)
    /\ UNCHANGED <<configText, schemaText, config, result, got>>

Validate ==
    /\ config # NotCalled /\ config.ok
    /\ schema # NotCalled /\ schema.ok
    /\ result = NotCalled
    /\ \E skeys \in IterationOrders(DOMAIN schema.val.entries),
          ckeys \in IterationOrders(DOMAIN config.val.entries) :
            result' = validate(config.val, schema.val, skeys, ckeys)
    /\ UNCHANGED <<configText, schemaText, config, schema, got>>

ConfigGet ==
    /\ config # NotCalled /\ config.ok
    /\ \E key \in (DOMAIN config.val.entries) \cup KeySamples :
            got' = [key |-> key, value |-> Config_get(config.val, key)]
    /\ UNCHANGED <<configText, schemaText, config, schema, result>>

Next == ConfigParse \/ SchemaParse \/ Validate \/ ConfigGet

Spec == Init /\ [][Next]_vars

(***************************************************************************)
(* Vocabulary of the properties: the kinds of source line, stated on the   *)
(* characters of the line and not through the tokenizer.                   *)
(***************************************************************************)
Min(S) == CHOOSE n \in S : \A m \in S : n <= m
Max(S) == CHOOSE n \in S : \A m \in S : n >= m
Range(f) == {f[i] : i \in DOMAIN f}

IsBlank(line) == \A i \in 1..Len(line) : line[i] \in WhiteSpace

\* the first character that is not whitespace is "#" or ";"
IsComment(line) ==
    \E i \in 1..Len(line) :
        /\ line[i] \in {"#", ";"}
        /\ \A j \in 1..(i - 1) : line[j] \in WhiteSpace

HasEq(line) == \E i \in 1..Len(line) : line[i] = "="

IsMalformed(line) == ~IsBlank(line) /\ ~IsComment(line) /\ ~HasEq(line)
IsKeyValueLine(line) == ~IsBlank(line) /\ ~IsComment(line) /\ HasEq(line)

FirstEq(line) == Min({i \in 1..Len(line) : line[i] = "="})

\* the trimmed text between the first "=" and the end of the line
ValueText(line) == trim(SubSeq(line, FirstEq(line) + 1, Len(line)))

\* the trimmed text before the first "=", without the soft marker
KeyText(line) ==
    LET before == trim(SubSeq(line, 1, FirstEq(line) - 1))
    IN  IF before # <<>> /\ before[1] = "-" THEN trim(Tail(before)) ELSE before

ConfigLinesOf == lines(configText)
SchemaLinesOf == lines(schemaText)
MalformedIn(ls) == {n \in 1..Len(ls) : IsMalformed(ls[n])}
KeyValueIn(ls) == {n \in 1..Len(ls) : IsKeyValueLine(ls[n])}
CommentIn(ls) == {n \in 1..Len(ls) : IsComment(ls[n])}
BlankIn(ls) == {n \in 1..Len(ls) : IsBlank(ls[n])}

TypeNames == {Str_string, Str_bool, Str_integer}
BadTypeIn(ls) == {n \in KeyValueIn(ls) : ValueText(ls[n]) \notin TypeNames}

ConfigParsed == config # NotCalled
SchemaParsed == schema # NotCalled
ConfigOk == ConfigParsed /\ config.ok
SchemaOk == SchemaParsed /\ schema.ok
Validated == result # NotCalled

(***************************************************************************)
(* C3: a text in which every line is blank, a comment or contains "=" is   *)
(* parsed by Config::parse without error, whatever the number and the      *)
(* order of its lines.                                                     *)
(***************************************************************************)
C3_ValidContentParses ==
    (ConfigParsed /\ MalformedIn(ConfigLinesOf) = {}) => config.ok

\* a parsed text that has a blank, a comment and a soft key-value line
C3_Witness ==
    /\ ConfigOk
    /\ BlankIn(ConfigLinesOf) # {}
    /\ CommentIn(ConfigLinesOf) # {}
    /\ \E n \in KeyValueIn(ConfigLinesOf) : trim(ConfigLinesOf[n])[1] = "-"

(***************************************************************************)
(* C4: when some line is neither blank nor a comment and has no "=", both  *)
(* parsers return InvalidLine and nothing else; line_number is the 1-based *)
(* position of the first such line and content is that line, untrimmed.    *)
(***************************************************************************)
FirstMalformedError(ls) ==
    Err(InvalidLine(Min(MalformedIn(ls)), ls[Min(MalformedIn(ls))]))

C4_FirstInvalidLine ==
    /\ (ConfigParsed /\ MalformedIn(ConfigLinesOf) # {})
            => config = FirstMalformedError(ConfigLinesOf)
    /\ (SchemaParsed /\ MalformedIn(SchemaLinesOf) # {})
            => schema = FirstMalformedError(SchemaLinesOf)

\* two malformed lines, the first one after another line and with
\* whitespace around it
C4_Witness ==
    /\ ConfigParsed /\ SchemaParsed
    /\ ~config.ok /\ ~schema.ok
    /\ Cardinality(MalformedIn(ConfigLinesOf)) >= 2
    /\ config.err.line_number >= 2
    /\ trim(config.err.content) # config.err.content
    /\ schema.err = config.err

(***************************************************************************)
(* C5: after a successful Config::parse, get of the key of a key-value     *)
(* line that no later line repeats returns the trimmed text between the    *)
(* first "=" of the line and its end, further "=" included; get of a key   *)
(* that is on no key-value line returns nothing.                           *)
(***************************************************************************)
LinesWithKey(ls, key) == {n \in KeyValueIn(ls) : KeyText(ls[n]) = key}

C5_GetReturnsTrimmedValue ==
    got # NotCalled =>
        LET occurrences == LinesWithKey(ConfigLinesOf, got.key)
        IN  IF occurrences = {}
            THEN got.value = None
            ELSE got.value = Some(ValueText(ConfigLinesOf[Max(occurrences)]))

\* get has returned a value that holds a "=" and was trimmed
C5_Witness ==
    /\ got # NotCalled
    /\ got.value.some
    /\ HasEq(got.value.val)
    /\ \E n \in LinesWithKey(ConfigLinesOf, got.key) :
            LET line == ConfigLinesOf[n]
            IN  SubSeq(line, FirstEq(line) + 1, Len(line)) # got.value.val

(***************************************************************************)
(* C6: a key that is on several key-value lines is mapped, by Config and   *)
(* by Schema, to what its last line gives, and the map has exactly one     *)
(* entry for each distinct key.                                            *)
(***************************************************************************)
KeysIn(ls) == {KeyText(ls[n]) : n \in KeyValueIn(ls)}
LastLineOf(ls, key) == ls[Max(LinesWithKey(ls, key))]

TypeNamed(name) ==
    CASE name = Str_string -> "Str"
      [] name = Str_bool -> "Bool"
      [] name = Str_integer -> "Integer"

C6_LastOccurrenceWins ==
    /\ ConfigOk =>
        /\ DOMAIN config.val.entries = KeysIn(ConfigLinesOf)
        /\ \A key \in KeysIn(ConfigLinesOf) :
              config.val.entries[key]
                  = ValueText(LastLineOf(ConfigLinesOf, key))
    /\ SchemaOk =>
        /\ DOMAIN schema.val.entries = KeysIn(SchemaLinesOf)
        /\ \A key \in KeysIn(SchemaLinesOf) :
              schema.val.entries[key]
                  = TypeNamed(ValueText(LastLineOf(SchemaLinesOf, key)))

\* both maps built from texts that give one key two different values
C6_Witness ==
    /\ ConfigOk /\ SchemaOk
    /\ \E key \in KeysIn(SchemaLinesOf) :
        \E n, m \in LinesWithKey(SchemaLinesOf, key) :
            /\ n < m
            /\ ValueText(SchemaLinesOf[n]) # ValueText(SchemaLinesOf[m])
    /\ \E key \in KeysIn(ConfigLinesOf) :
        \E n, m \in LinesWithKey(ConfigLinesOf, key) :
            /\ n < m
            /\ ValueText(ConfigLinesOf[n]) # ValueText(ConfigLinesOf[m])

(***************************************************************************)
(* C7: an InvalidType error of Schema::parse names the trimmed value of    *)
(* the first key-value line whose value is not a type name, and its        *)
(* line_number is the 1-based source line of that line, also after blank   *)
(* and comment lines: the tokenizer yields one token for each line.        *)
(***************************************************************************)
C7_InvalidTypeLineNumber ==
    (SchemaParsed /\ ~schema.ok /\ schema.err.kind = "InvalidType") =>
        /\ BadTypeIn(SchemaLinesOf) # {}
        /\ schema.err.line_number = Min(BadTypeIn(SchemaLinesOf))
        /\ schema.err.type_name
              = ValueText(SchemaLinesOf[Min(BadTypeIn(SchemaLinesOf))])
        /\ Len(Tokens_parse(schemaText).val) = Len(SchemaLinesOf)

\* InvalidType for a line that follows a blank line and a comment
C7_Witness ==
    /\ SchemaParsed /\ ~schema.ok
    /\ schema.err.kind = "InvalidType"
    /\ schema.err.line_number = 3
    /\ BlankIn(SchemaLinesOf) \cup CommentIn(SchemaLinesOf) = {1, 2}
    /\ BlankIn(SchemaLinesOf) # {} /\ CommentIn(SchemaLinesOf) # {}

(***************************************************************************)
(* C8: a line whose trimmed form starts with "#" or ";" adds no entry,     *)
(* whatever follows the marker: the parsed map is the one of the text      *)
(* without that line, and a key that only comment lines give is reported   *)
(* as MissingKey when the schema declares it.                              *)
(***************************************************************************)
WithoutLine(ls, n) == SubSeq(ls, 1, n - 1) \o SubSeq(ls, n + 1, Len(ls))

\* the key a comment line would give if its marker were dropped
CommentedKeys(ls) ==
    {KeyText(Tail(trim(ls[n]))) : n \in {m \in CommentIn(ls) : HasEq(ls[m])}}

C8_CommentsAddNothing ==
    /\ ConfigOk =>
        \A n \in CommentIn(ConfigLinesOf) :
            Config_parse(Join(WithoutLine(ConfigLinesOf, n))) = config
    /\ SchemaOk =>
        \A n \in CommentIn(SchemaLinesOf) :
            Schema_parse(Join(WithoutLine(SchemaLinesOf, n))) = schema
    /\ Validated =>
        \A key \in CommentedKeys(ConfigLinesOf) \ KeysIn(ConfigLinesOf) :
            key \in DOMAIN schema.val.entries
                => /\ ~result.ok
                   /\ MissingKey(key) \in Range(result.err)

\* validation has reported a key as missing that a comment line of the
\* config gives, and the schema has a comment line with a type name
C8_Witness ==
    /\ Validated /\ ~result.ok
    /\ \E key \in CommentedKeys(ConfigLinesOf) :
            MissingKey(key) \in Range(result.err)
    /\ \E n \in CommentIn(SchemaLinesOf) : HasEq(SchemaLinesOf[n])

(***************************************************************************)
(* C9: the soft marker changes nothing: for a line "-K=V" whose K, once    *)
(* trimmed, does not start with "-", "#" or ";", the text with "K=V" in    *)
(* its place has the same outcome of Config::parse and of Schema::parse,   *)
(* map or error; a soft schema line with an unrecognized type name still   *)
(* fails with InvalidType.                                                 *)
(***************************************************************************)
IsSoft(line) ==
    LET trimmed == trim(line)
    IN  /\ trimmed # <<>> /\ trimmed[1] = "-"
        /\ HasEq(trimmed)
        /\ LET K == trim(SubSeq(trimmed, 2, FirstEq(trimmed) - 1))
           IN  K = <<>> \/ K[1] \notin {"-", "#", ";"}

SoftIn(ls) == {n \in 1..Len(ls) : IsSoft(ls[n])}

\* the line without its first "-"
Unmarked(line) ==
    LET p == Min({i \in 1..Len(line) : line[i] = "-"})
    IN  SubSeq(line, 1, p - 1) \o SubSeq(line, p + 1, Len(line))

WithUnmarked(ls, n) == Join([ls EXCEPT ![n] = Unmarked(ls[n])])

C9_SoftMarkerHasNoEffect ==
    /\ ConfigParsed =>
        \A n \in SoftIn(ConfigLinesOf) :
            Config_parse(WithUnmarked(ConfigLinesOf, n)) = config
    /\ SchemaParsed =>
        \A n \in SoftIn(SchemaLinesOf) :
            Schema_parse(WithUnmarked(SchemaLinesOf, n)) = schema

\* the config is built, and the schema failed with InvalidType on a soft
\* line
C9_Witness ==
    /\ ConfigOk
    /\ SchemaParsed /\ ~schema.ok
    /\ schema.err.kind = "InvalidType"
    /\ schema.err.line_number \in SoftIn(SchemaLinesOf)
    /\ schema.err.type_name # <<>>

(***************************************************************************)
(* C10: Schema::parse tokenizes the whole text before it looks at a type   *)
(* name: with a malformed line in the text the error is InvalidLine for    *)
(* the first malformed line, also when a line with an unrecognized type    *)
(* name comes before it; InvalidType needs every line to be well formed.   *)
(***************************************************************************)
C10_InvalidLineBeforeInvalidType ==
    SchemaParsed =>
        /\ (MalformedIn(SchemaLinesOf) # {} /\ BadTypeIn(SchemaLinesOf) # {})
              => /\ ~schema.ok
                 /\ schema.err.kind = "InvalidLine"
                 /\ schema.err.line_number = Min(MalformedIn(SchemaLinesOf))
        /\ (~schema.ok /\ schema.err.kind = "InvalidType")
              => MalformedIn(SchemaLinesOf) = {}

\* InvalidLine although a line with an unrecognized type name comes first
C10_Witness ==
    /\ SchemaParsed /\ ~schema.ok
    /\ schema.err.kind = "InvalidLine"
    /\ BadTypeIn(SchemaLinesOf) # {}
    /\ Min(BadTypeIn(SchemaLinesOf)) < schema.err.line_number

(***************************************************************************)
(* C1: validate succeeds exactly when config and schema do not differ;     *)
(* otherwise its list holds, once each and nothing else, MissingKey for a  *)
(* key of the schema alone, UnknownKey for a key of the config alone and   *)
(* TypeMismatch, with the type's display name and the config's value, for  *)
(* a key of both whose value fails the type check.                         *)
(***************************************************************************)
DisplayName(vt) ==
    CASE vt = "Str" -> <<"s", "t", "r", "i", "n", "g">>
      [] vt = "Bool" -> <<"b", "o", "o", "l">>
      [] vt = "Integer" -> <<"i", "n", "t", "e", "g", "e", "r">>

Discrepancies(C, S) ==
    {MissingKey(k) : k \in (DOMAIN S) \ (DOMAIN C)}
    \cup {UnknownKey(k) : k \in (DOMAIN C) \ (DOMAIN S)}
    \cup {TypeMismatch(k, DisplayName(S[k]), C[k]) :
            k \in {j \in (DOMAIN S) \cap (DOMAIN C) : ~is_valid(S[j], C[j])}}

C1_ValidateReportsAllDiscrepancies ==
    Validated =>
        LET expected == Discrepancies(config.val.entries, schema.val.entries)
        IN  /\ result.ok <=> expected = {}
            /\ ~result.ok =>
                /\ Range(result.err) = expected
                /\ Len(result.err) = Cardinality(expected)

\* a report with an error of each of the three kinds
C1_Witness ==
    /\ Validated /\ ~result.ok
    /\ {e.kind : e \in Range(result.err)}
          = {"MissingKey", "UnknownKey", "TypeMismatch"}

(***************************************************************************)
(* C2: the Integer check accepts a value exactly when it is an optional    *)
(* sign followed by one or more decimal digits whose value is between      *)
(* -2^63 and 2^63-1; any other value yields a TypeMismatch.                *)
(* C2_IntegerCheck takes "-" and "+" as signs, C2_IntegerCheckNoPlus       *)
(* takes "-" alone.                                                        *)
(***************************************************************************)
I64_MIN_Digits == [I64_MAX_Digits EXCEPT ![Len(I64_MAX_Digits)] = "8"]

RECURSIVE WithoutLeadingZeros(_)
WithoutLeadingZeros(ds) ==
    IF ds # <<>> /\ ds[1] = "0" THEN WithoutLeadingZeros(Tail(ds)) ELSE ds

\* ds and limit are digit strings of the same length
DigitsLeq(ds, limit) ==
    \/ ds = limit
    \/ \E i \in 1..Len(ds) :
        /\ to_digit(ds[i]) < to_digit(limit[i])
        /\ \A j \in 1..(i - 1) : ds[j] = limit[j]

InRange(ds, limit) ==
    LET significant == WithoutLeadingZeros(ds)
    IN  \/ Len(significant) < Len(limit)
        \/ Len(significant) = Len(limit) /\ DigitsLeq(significant, limit)

IsInteger64(value, signs) ==
    LET signed == value # <<>> /\ value[1] \in signs
        ds == IF signed THEN Tail(value) ELSE value
    IN  /\ ds # <<>>
        /\ \A i \in 1..Len(ds) : ds[i] \in Digits
        /\ InRange(ds, IF value[1] = "-" THEN I64_MIN_Digits
                                         ELSE I64_MAX_Digits)

IntegerKeys ==
    {k \in (DOMAIN schema.val.entries) \cap (DOMAIN config.val.entries) :
        schema.val.entries[k] = "Integer"}

IntegerCheck(signs) ==
    Validated =>
        \A k \in IntegerKeys :
            LET value == config.val.entries[k]
                mismatch == TypeMismatch(k, Str_integer, value)
            IN  IF IsInteger64(value, signs)
                THEN result.ok \/ mismatch \notin Range(result.err)
                ELSE ~result.ok /\ mismatch \in Range(result.err)

C2_IntegerCheck == IntegerCheck({"-", "+"})

C2_IntegerCheckNoPlus == IntegerCheck({"-"})

\* i64::MAX with a "+" has passed the check
C2_Witness ==
    /\ Validated /\ result.ok
    /\ \E k \in IntegerKeys :
            config.val.entries[k] = <<"+">> \o I64_MAX_Digits

====
